---------------------------- MODULE Spec2Model ----------------------------
(***************************************************************************)
(* Model of the SSML builder of src/main.py: clean_text,                   *)
(* convert_timestamp_to_seconds, generate_ssml and the part of upload_csv  *)
(* that calls generate_ssml and turns its exceptions into responses.       *)
(*                                                                         *)
(* A Python str is a sequence of one-character strings.  A cell of the     *)
(* pandas table is a record [nan, s]: Str(cs) is the str cs, NaN is the    *)
(* float nan that pandas.read_csv puts in an empty cell.  A row is a       *)
(* function from the table's column names to cells.                        *)
(***************************************************************************)
EXTENDS Integers, Sequences, FiniteSets, TLC

VARIABLES
    df,              \* the table: [columns : set of names, rows : Seq(row)]
    call,            \* upload_csv's call site: "en" (line 233), "source" (line 250)
    pc,              \* position in upload_csv / generate_ssml
    lang_column,     \* generate_ssml's parameters ...
    male_voice,
    female_voice,
    xml_lang,
    index,           \* position of df.iterrows()
    last_timestamp,  \* generate_ssml's local
    delay,           \* generate_ssml's local, of the last processed row
    ssml_content,    \* generate_ssml's local: the document so far, a Seq of tokens
    storage,         \* objects put to S3, in order
    exc,             \* the exception in flight or caught
    response,        \* upload_csv's error response
    fn,              \* the function called on its own: "clean_text",
                     \* "convert_timestamp_to_seconds", or "none"
    arg,             \* its argument (a cell)
    ret              \* its outcome [exc, val]; Pending before the call

vars == << df, call, pc, lang_column, male_voice, female_voice, xml_lang, index,
           last_timestamp, delay, ssml_content, storage, exc, response,
           fn, arg, ret >>

ssmlVars == << df, call, pc, lang_column, male_voice, female_voice, xml_lang, index,
               last_timestamp, delay, ssml_content, storage, exc, response >>

fnVars == << fn, arg, ret >>

-----------------------------------------------------------------------------
(* Bounds *)

MaxRows == 3        \* rows of a table
MaxTextLen == 4     \* characters of an argument of clean_text
MaxStampLen == 4    \* characters of an argument of convert_timestamp_to_seconds

-----------------------------------------------------------------------------
(* Values *)

NaN == [nan |-> TRUE, s |-> << >>]

Str(cs) == [nan |-> FALSE, s |-> cs]

\* the str ''
Empty == Str(<< >>)

Min(S) == CHOOSE x \in S : \A y \in S : x <= y

max(a, b) == IF a >= b THEN a ELSE b

RECURSIVE SeqsUpTo(_, _)
SeqsUpTo(A, n) ==
    IF n = 0 THEN { << >> }
    ELSE LET shorter == SeqsUpTo(A, n - 1)
         IN  shorter \cup { Append(s, c) : s \in { t \in shorter : Len(t) = n - 1 }, c \in A }

-----------------------------------------------------------------------------
(* clean_text: re.sub(r'\[.*?\]', '', text) *)

\* Where the match of \[.*?\] that starts at the head of s ends; 0 when there
\* is no match there.  '.' matches every character except a newline, and *? is
\* lazy, so the match ends at the first ']' with no newline before it.
MatchEnd(s) ==
    IF s = << >> \/ Head(s) # "[" THEN 0
    ELSE LET ends == { j \in 2..Len(s) :
                         /\ s[j] = "]"
                         /\ \A k \in 2..(j - 1) : s[k] # "\n" }
         IN  IF ends = {} THEN 0 ELSE Min(ends)

RECURSIVE re_sub(_)
re_sub(s) ==
    IF s = << >> THEN << >>
    ELSE LET j == MatchEnd(s)
         IN  IF j > 0 THEN re_sub(SubSeq(s, j + 1, Len(s)))
             ELSE << Head(s) >> \o re_sub(Tail(s))

\* re.sub raises TypeError on a float.
clean_text(text) ==
    IF text.nan THEN [exc |-> "TypeError", val |-> << >>]
    ELSE [exc |-> "none", val |-> re_sub(text.s)]

-----------------------------------------------------------------------------
(* convert_timestamp_to_seconds *)

Digits == << "0", "1", "2", "3", "4", "5", "6", "7", "8", "9" >>

IsDigit(c) == \E i \in 1..10 : Digits[i] = c

DigitVal(c) == (CHOOSE i \in 1..10 : Digits[i] = c) - 1

\* str.split(':')
RECURSIVE split(_)
split(s) ==
    IF \A i \in 1..Len(s) : s[i] # ":" THEN << s >>
    ELSE LET p == Min({ i \in 1..Len(s) : s[i] = ":" })
         IN  << SubSeq(s, 1, p - 1) >> \o split(SubSeq(s, p + 1, Len(s)))

\* str.strip() as int() applies it (blanks only in this alphabet)
RECURSIVE strip(_)
strip(s) ==
    IF s = << >> THEN s
    ELSE IF Head(s) = " " THEN strip(Tail(s))
    ELSE IF s[Len(s)] = " " THEN strip(SubSeq(s, 1, Len(s) - 1))
    ELSE s

RECURSIVE DigitsVal(_)
DigitsVal(s) ==
    IF s = << >> THEN 0
    ELSE DigitsVal(SubSeq(s, 1, Len(s) - 1)) * 10 + DigitVal(s[Len(s)])

Unsigned(s) == IF s # << >> /\ Head(s) \in { "+", "-" } THEN Tail(s) ELSE s

\* Whether int(s) succeeds (otherwise it raises ValueError)
IntOk(s) ==
    LET u == Unsigned(strip(s))
    IN  u # << >> /\ \A i \in 1..Len(u) : IsDigit(u[i])

int(s) ==
    LET t == strip(s)
    IN  IF Head(t) = "-" THEN 0 - DigitsVal(Unsigned(t)) ELSE DigitsVal(Unsigned(t))

\* timestamp.split raises AttributeError on a float, which `except ValueError`
\* does not catch; int() of a part and the unpacking into two names raise
\* ValueError, which it does.
convert_timestamp_to_seconds(timestamp) ==
    IF timestamp.nan THEN [exc |-> "AttributeError", val |-> 0]
    ELSE LET parts == split(timestamp.s)
         IN  IF Len(parts) = 2 /\ IntOk(parts[1]) /\ IntOk(parts[2])
             THEN [exc |-> "none", val |-> int(parts[1]) * 60 + int(parts[2])]
             ELSE [exc |-> "none", val |-> 0]

-----------------------------------------------------------------------------
(* The document: ssml_content is a Python str; here a sequence of tokens,  *)
(* one per markup literal of an f-string and one per character that is     *)
(* interpolated or literal text.  A voice or break token also carries the  *)
(* index of the row whose iteration appended it (not part of the string).  *)

SpeakOpen(lang) == [t |-> "speak_open", lang |-> lang]

SpeakClose == [t |-> "speak_close"]

Break(d, i) == [t |-> "break", time |-> d, row |-> i]

VoiceOpen(v, i) == [t |-> "voice_open", name |-> v, row |-> i]

VoiceClose == [t |-> "voice_close"]

Char(c) == [t |-> "char", c |-> c]

Chars(cs) == [k \in 1..Len(cs) |-> Char(cs[k])]

NoExc == [type |-> "none", msg |-> << >>]

NoResponse == [error |-> << >>]

-----------------------------------------------------------------------------
(* Tables *)

spk_0 == << "s", "p", "k", "_", "0" >>

spk_1 == << "s", "p", "k", "_", "1" >>

spk_2 == << "s", "p", "k", "_", "2" >>

T(m, a, b) == << m, ":", a, b >>

\* The contents a row can have: the cells of its Speaker, Time Markers and
\* transcription columns.
R(speaker, time, text) == [speaker |-> speaker, time |-> time, text |-> text]

RowContents ==
    { \* spoken text at several times, two speakers
      R(Str(spk_0), Str(T("0", "0", "0")), Str(<< "a" >>)),
      R(Str(spk_0), Str(T("0", "0", "5")), Str(<< "a" >>)),
      R(Str(spk_0), Str(T("0", "0", "3")), Str(<< "a" >>)),
      R(Str(spk_1), Str(T("0", "1", "0")), Str(<< "a" >>)),
      \* only an annotation, without and with a blank before it
      R(Str(spk_1), Str(T("0", "0", "5")), Str(<< "[", "x", "]" >>)),
      R(Str(spk_0), Str(T("0", "1", "0")), Str(<< " ", "[", "x", "]" >>)),
      \* a third speaker, an empty Speaker cell
      R(Str(spk_2), Str(T("0", "0", "5")), Str(<< "b" >>)),
      R(NaN, Str(T("0", "0", "3")), Str(<< "b" >>)),
      \* a malformed and an empty Time Markers cell
      R(Str(spk_0), Str(<< "a", "b", "c" >>), Str(<< "a" >>)),
      R(Str(spk_1), NaN, Str(<< "a" >>)),
      \* markup characters in the text, an empty text cell
      R(Str(spk_1), Str(T("0", "0", "3")), Str(<< "&", "<" >>)),
      R(Str(spk_0), Str(T("0", "0", "5")), NaN) }

MkRow(r, columns) ==
    [ c \in columns |-> IF c = "Speaker" THEN r.speaker
                        ELSE IF c = "Time Markers" THEN r.time
                        ELSE r.text ]

ColumnSets ==
    { { "Speaker", "Time Markers", "EN--Transcription", "IN--Transcription" },
      { "Speaker", "Time Markers", "IN--Transcription" },
      { "EN--Transcription" } }

Tables ==
    { [columns |-> cols, rows |-> [k \in 1..Len(rs) |-> MkRow(rs[k], cols)]] :
        cols \in ColumnSets, rs \in SeqsUpTo(RowContents, MaxRows) }

\* row.get(key, default)
get(row, key, default) == IF key \in DOMAIN row THEN row[key] ELSE default

\* find_transcription_column: the column that contains locale_code and ends
\* with '--Transcription' ("None" when there is none).  Among the column
\* names of this model that is locale_code + '--Transcription'.
find_transcription_column(d, locale_code) ==
    IF \E c \in d.columns : c = locale_code \o "--Transcription"
    THEN locale_code \o "--Transcription"
    ELSE "None"

-----------------------------------------------------------------------------
(* upload_csv up to its calls of generate_ssml *)

Init ==
    /\ df \in Tables
    /\ call \in { "en", "source" }
    \* line 250 is reached only after line 233 returned
    /\ call = "source" => "EN--Transcription" \in df.columns
    /\ pc = "request"
    /\ lang_column = "None"
    /\ male_voice = "None"
    /\ female_voice = "None"
    /\ xml_lang = "None"
    /\ index = 0
    /\ last_timestamp = 0
    /\ delay = 0
    /\ ssml_content = << >>
    \* line 216: the input CSV is stored before anything is built
    /\ storage = << [folder |-> "input/", body |-> << >>] >>
    /\ exc = NoExc
    /\ response = NoResponse
    /\ fn = "none"
    /\ arg = Empty
    /\ ret = [exc |-> "none", val |-> << >>]

\* line 233
upload_csv_call_en ==
    /\ pc = "request"
    /\ call = "en"
    /\ lang_column' = "EN--Transcription"
    /\ male_voice' = "en-US-GuyNeural"
    /\ female_voice' = "en-US-JennyNeural"
    /\ xml_lang' = "en-US"
    /\ pc' = "enter"
    /\ UNCHANGED << df, call, index, last_timestamp, delay, ssml_content, storage,
                    exc, response >>
    /\ UNCHANGED fnVars

\* lines 236-250, for source = "hi-IN"
upload_csv_call_source ==
    /\ pc = "request"
    /\ call = "source"
    /\ LET transcription_column == find_transcription_column(df, "IN")
           present == { k \in 1..Len(df.rows) : ~ df.rows[k][transcription_column].nan }
       IN  \/ /\ transcription_column = "None"
              /\ response' = [error |-> << "CSV must contain a column with '", "IN",
                                           "--Transcription' for the specified language." >>]
              /\ pc' = "responded"
              /\ UNCHANGED << lang_column, male_voice, female_voice, xml_lang, exc >>
           \/ /\ transcription_column # "None"
              /\ present = {}
              \* df[transcription_column].dropna().iloc[0]
              /\ exc' = [type |-> "IndexError", msg |-> << "single positional indexer is out-of-bounds" >>]
              /\ pc' = "raised"
              /\ UNCHANGED << lang_column, male_voice, female_voice, xml_lang, response >>
           \/ /\ transcription_column # "None"
              /\ present # {}
              \* detect_language is an external library: either outcome
              /\ \E detected_language \in { "hi", "en" } :
                    IF detected_language # "hi"
                    THEN /\ response' = [error |-> << "Detected language '", detected_language,
                                                      "' does not match the expected language 'Hindi' in 'IN--Transcription'." >>]
                         /\ pc' = "responded"
                         /\ UNCHANGED << lang_column, male_voice, female_voice, xml_lang, exc >>
                    ELSE /\ lang_column' = transcription_column
                         /\ male_voice' = "hi-IN-MadhurNeural"
                         /\ female_voice' = "hi-IN-SwaraNeural"
                         /\ xml_lang' = "hi-IN"
                         /\ pc' = "enter"
                         /\ UNCHANGED << exc, response >>
    /\ UNCHANGED << df, call, index, last_timestamp, delay, ssml_content, storage >>
    /\ UNCHANGED fnVars

-----------------------------------------------------------------------------
(* generate_ssml *)

\* the column check left out
has_column_unchecked(d, column) == TRUE

\* line 121: `lang_column in df.columns`
has_column(d, column) == column \in d.columns

\* lines 120-127
generate_ssml_enter ==
    /\ pc = "enter"
    /\ IF ~ has_column(df, lang_column)
       THEN /\ exc' = [type |-> "ValueError",
                       msg |-> << "Column '", lang_column, "' not found in the CSV file." >>]
            /\ pc' = "raised"
            /\ UNCHANGED << ssml_content, last_timestamp, index >>
       ELSE /\ ssml_content' = << SpeakOpen(xml_lang), Char("\n") >>
            /\ last_timestamp' = 0
            /\ index' = 1
            /\ pc' = "loop"
            /\ exc' = exc
    /\ UNCHANGED << df, call, lang_column, male_voice, female_voice, xml_lang, delay,
                    storage, response >>
    /\ UNCHANGED fnVars

\* the speaker test generalised to "the second speaker is female"
voice_of_second_speaker(speaker, male, female) ==
    IF speaker = Str(spk_1) THEN female ELSE male

\* line 145
voice_of(speaker, male, female) == IF speaker = Str(spk_0) THEN male ELSE female

\* the difference left unclamped
delay_of_unclamped(timestamp_seconds, last) == timestamp_seconds - last

\* line 138
delay_of(timestamp_seconds, last) == max(0, timestamp_seconds - last)

\* the silence appended after the utterance it belongs to
segments_of_break_last(d, voice, transcription, i) ==
    << VoiceOpen(voice, i) >> \o Chars(transcription) \o << VoiceClose, Char("\n") >>
    \o (IF d > 0 THEN << Break(d, i) >> ELSE << >>)

\* lines 142-147: what one row appends
segments_of(d, voice, transcription, i) ==
    (IF d > 0 THEN << Break(d, i) >> ELSE << >>)
    \o << VoiceOpen(voice, i) >> \o Chars(transcription) \o << VoiceClose, Char("\n") >>

\* a tracker that only moves forward
next_last_timestamp_monotone(timestamp_seconds, last) == max(timestamp_seconds, last)

\* line 140
next_last_timestamp(timestamp_seconds, last) == timestamp_seconds

\* line 133: `if not transcription`
is_skipped(transcription) == transcription = << >>

\* lines 129-147: one iteration of the loop
generate_ssml_row ==
    /\ pc = "loop"
    /\ index <= Len(df.rows)
    /\ LET row == df.rows[index]
           speaker == get(row, "Speaker", Str(spk_0))
           transcription == clean_text(get(row, lang_column, Str(<< >>)))
           timestamp_seconds ==
               convert_timestamp_to_seconds(get(row, "Time Markers", Str(T("0", "0", "0"))))
       IN  \/ /\ transcription.exc # "none"
              /\ exc' = [type |-> transcription.exc,
                         msg |-> << "expected string or bytes-like object" >>]
              /\ pc' = "raised"
              /\ UNCHANGED << index, last_timestamp, delay, ssml_content >>
           \/ /\ transcription.exc = "none"
              /\ is_skipped(transcription.val)
              /\ index' = index + 1
              /\ UNCHANGED << pc, exc, last_timestamp, delay, ssml_content >>
           \/ /\ transcription.exc = "none"
              /\ ~ is_skipped(transcription.val)
              /\ timestamp_seconds.exc # "none"
              /\ exc' = [type |-> timestamp_seconds.exc,
                         msg |-> << "'float' object has no attribute 'split'" >>]
              /\ pc' = "raised"
              /\ UNCHANGED << index, last_timestamp, delay, ssml_content >>
           \/ /\ transcription.exc = "none"
              /\ ~ is_skipped(transcription.val)
              /\ timestamp_seconds.exc = "none"
              /\ delay' = delay_of(timestamp_seconds.val, last_timestamp)
              /\ last_timestamp' = next_last_timestamp(timestamp_seconds.val, last_timestamp)
              /\ ssml_content' = ssml_content \o
                    segments_of(delay', voice_of(speaker, male_voice, female_voice),
                                transcription.val, index)
              /\ index' = index + 1
              /\ UNCHANGED << pc, exc >>
    /\ UNCHANGED << df, call, lang_column, male_voice, female_voice, xml_lang,
                    storage, response >>
    /\ UNCHANGED fnVars

\* lines 149-154: close the envelope and upload the document
generate_ssml_finish ==
    /\ pc = "loop"
    /\ index > Len(df.rows)
    /\ ssml_content' = Append(ssml_content, SpeakClose)
    /\ storage' = Append(storage, [folder |-> "ssml/", body |-> ssml_content'])
    /\ pc' = "returned"
    /\ UNCHANGED << df, call, lang_column, male_voice, female_voice, xml_lang, index,
                    last_timestamp, delay, exc, response >>
    /\ UNCHANGED fnVars

\* lines 264-270
upload_csv_except ==
    /\ pc = "raised"
    /\ \/ /\ exc.type = "ValueError"
          /\ response' = [error |-> exc.msg]
       \/ /\ exc.type # "ValueError"
          /\ response' = [error |-> << "Error processing file. " >> \o exc.msg]
    /\ pc' = "responded"
    /\ UNCHANGED << df, call, lang_column, male_voice, female_voice, xml_lang, index,
                    last_timestamp, delay, ssml_content, storage, exc >>
    /\ UNCHANGED fnVars

Next ==
    \/ upload_csv_call_en
    \/ upload_csv_call_source
    \/ generate_ssml_enter
    \/ generate_ssml_row
    \/ generate_ssml_finish
    \/ upload_csv_except

Spec == Init /\ [][Next]_vars

-----------------------------------------------------------------------------
(* clean_text and convert_timestamp_to_seconds on their own: the argument  *)
(* is drawn in the initial state and one action applies the function.      *)

TextAlphabet == { "a", "b", "[", "]", "\n" }

StampAlphabet == { "1", "5", ":", "a", "-" }

Pending == [exc |-> "pending", val |-> << >>]

NotBuilding ==
    /\ df = [columns |-> {}, rows |-> << >>]
    /\ call = "none"
    /\ pc = "idle"
    /\ lang_column = "None"
    /\ male_voice = "None"
    /\ female_voice = "None"
    /\ xml_lang = "None"
    /\ index = 0
    /\ last_timestamp = 0
    /\ delay = 0
    /\ ssml_content = << >>
    /\ storage = << >>
    /\ exc = NoExc
    /\ response = NoResponse

InitClean ==
    /\ NotBuilding
    /\ fn = "clean_text"
    /\ arg \in { Str(cs) : cs \in SeqsUpTo(TextAlphabet, MaxTextLen) } \cup { NaN }
    /\ ret = Pending

call_clean_text ==
    /\ fn = "clean_text"
    /\ ret = Pending
    /\ ret' = clean_text(arg)
    /\ UNCHANGED << fn, arg >>
    /\ UNCHANGED ssmlVars

SpecClean == InitClean /\ [][call_clean_text]_vars

InitStamp ==
    /\ NotBuilding
    /\ fn = "convert_timestamp_to_seconds"
    /\ arg \in { Str(cs) : cs \in SeqsUpTo(StampAlphabet, MaxStampLen) } \cup { NaN }
    /\ ret = Pending

call_convert_timestamp_to_seconds ==
    /\ fn = "convert_timestamp_to_seconds"
    /\ ret = Pending
    /\ ret' = convert_timestamp_to_seconds(arg)
    /\ UNCHANGED << fn, arg >>
    /\ UNCHANGED ssmlVars

SpecStamp == InitStamp /\ [][call_convert_timestamp_to_seconds]_vars

-----------------------------------------------------------------------------
(* What the properties below speak about *)

\* generate_ssml has passed its column check: rows 1..index-1 are processed
Building == pc \in { "loop", "returned" }

Processed == IF Building THEN 1..(index - 1) ELSE {}

CleanOf(i) == clean_text(get(df.rows[i], lang_column, Str(<< >>)))

StampOf(i) ==
    convert_timestamp_to_seconds(get(df.rows[i], "Time Markers", Str(T("0", "0", "0")))).val

\* the row has text left after the annotations are removed
Spoken(i) == CleanOf(i).exc = "none" /\ CleanOf(i).val # << >>

Max(S) == CHOOSE x \in S : \A y \in S : x >= y

\* the timestamp of the last spoken row among rows 1..i, 0 when there is none
LastSpokenStamp(i) ==
    LET before == { j \in 1..i : Spoken(j) }
    IN  IF before = {} THEN 0 ELSE StampOf(Max(before))

IsVoiceOpen(tk) == tk.t = "voice_open"

IsMarkup(tk) == tk.t # "char"

TokensOfRow(i) ==
    LET OfRow(tk) == tk.t \in { "break", "voice_open" } /\ tk.row = i
    IN  SelectSeq(ssml_content, OfRow)

Kinds(doc) == LET m == SelectSeq(doc, IsMarkup) IN [k \in 1..Len(m) |-> m[k].t]

InputObject == [folder |-> "input/", body |-> << >>]

-----------------------------------------------------------------------------
(* C1 *)

\* generate_ssml was entered and its parameters bound
Called == lang_column # "None" /\ pc \notin { "request", "enter", "idle" }

\* C1: when generate_ssml is called with a column that is not a column of
\* the table, it has failed with a ValueError whose message names that
\* column, upload_csv answers with that message, no segment was built and
\* the store holds nothing but the input CSV.
C1_MissingColumnFails ==
    (Called /\ lang_column \notin df.columns) =>
        /\ pc \in { "raised", "responded" }
        /\ exc.type = "ValueError"
        /\ exc.msg = << "Column '", lang_column, "' not found in the CSV file." >>
        /\ ssml_content = << >>
        /\ storage = << InputObject >>
        /\ pc = "responded" => response.error = exc.msg

C1_Witness ==
    /\ pc = "responded"
    /\ lang_column = "EN--Transcription"
    /\ lang_column \notin df.columns
    /\ response.error[2] = "EN--Transcription"
    /\ Len(df.rows) >= 2

-----------------------------------------------------------------------------
(* C2 *)

\* the delay the claim gives row i: max(0, its timestamp - the timestamp of
\* the spoken row before it)
ClaimedDelay(i) == max(0, StampOf(i) - LastSpokenStamp(i - 1))

\* C2: no silence of negative (or zero) duration is in the document; the
\* delay of a spoken row is max(0, row timestamp - last timestamp), and the
\* row has a silence segment exactly when that delay is positive, of exactly
\* that many seconds.
C2_NoNegativeSilence ==
    Building =>
        /\ delay >= 0
        /\ \A p \in 1..Len(ssml_content) :
              ssml_content[p].t = "break" => ssml_content[p].time > 0
        /\ \A i \in Processed :
              Spoken(i) =>
                 LET IsBreakOf(tk) == tk.t = "break" /\ tk.row = i
                     breaks == SelectSeq(ssml_content, IsBreakOf)
                 IN  /\ breaks = IF ClaimedDelay(i) > 0
                                 THEN << Break(ClaimedDelay(i), i) >> ELSE << >>
                     /\ (\A j \in Processed : j > i => ~ Spoken(j)) => delay = ClaimedDelay(i)

\* rows at 0:00, 0:05, 0:03: one silence of 5 seconds, none before the third row
C2_Witness ==
    /\ pc = "returned"
    /\ Len(df.rows) = 3
    /\ \A i \in 1..3 : Spoken(i)
    /\ << StampOf(1), StampOf(2), StampOf(3) >> = << 0, 5, 3 >>
    /\ delay = 0
    /\ TokensOfRow(2) = << Break(5, 2), VoiceOpen(male_voice, 2) >>
    /\ TokensOfRow(3) = << VoiceOpen(male_voice, 3) >>

-----------------------------------------------------------------------------
(* C3 *)

\* C3: the voiced segments are those of the spoken rows, one each, in table
\* order, each holding the row's cleaned text; a silence segment sits
\* immediately before the voiced segment of its own row; two spoken rows at
\* 0:00 and 0:10 give voice, one silence of 10 seconds, voice.
C3_RowOrder ==
    Building =>
        LET voices == SelectSeq(ssml_content, IsVoiceOpen)
        IN  /\ \A k \in 1..(Len(voices) - 1) : voices[k].row < voices[k + 1].row
            /\ { voices[k].row : k \in 1..Len(voices) } = { i \in Processed : Spoken(i) }
            /\ \A p \in 1..Len(ssml_content) :
                  /\ ssml_content[p].t = "break" =>
                        /\ p < Len(ssml_content)
                        /\ ssml_content[p + 1].t = "voice_open"
                        /\ ssml_content[p + 1].row = ssml_content[p].row
                  /\ ssml_content[p].t = "voice_open" =>
                        LET text == CleanOf(ssml_content[p].row).val
                        IN  /\ p + Len(text) + 1 <= Len(ssml_content)
                            /\ SubSeq(ssml_content, p + 1, p + Len(text)) = Chars(text)
                            /\ ssml_content[p + Len(text) + 1] = VoiceClose
            /\ ( /\ pc = "returned"
                 /\ Len(df.rows) = 2
                 /\ Spoken(1) /\ Spoken(2)
                 /\ StampOf(1) = 0 /\ StampOf(2) = 10 ) =>
                   /\ Kinds(ssml_content) = << "speak_open", "voice_open", "voice_close",
                                               "break", "voice_open", "voice_close",
                                               "speak_close" >>
                   /\ TokensOfRow(2)[1] = Break(10, 2)

C3_Witness ==
    /\ pc = "returned"
    /\ Len(df.rows) = 2
    /\ Spoken(1) /\ Spoken(2)
    /\ StampOf(1) = 0 /\ StampOf(2) = 10
    /\ TokensOfRow(1) = << VoiceOpen(male_voice, 1) >>
    /\ TokensOfRow(2) = << Break(10, 2), VoiceOpen(female_voice, 2) >>

-----------------------------------------------------------------------------
(* C8 *)

-----------------------------------------------------------------------------
(* C10 *)

\* C10 as stated: the tracker never decreases.
C10_Monotone == [][last_timestamp' >= last_timestamp]_vars

\* C10, amended: the tracker is 0 until a row is spoken and then the
\* timestamp of the last spoken row, whatever the delay was; it is smaller
\* than before when that row's timestamp is.
C10_TrackerIsLastSpokenStamp ==
    Building => last_timestamp = LastSpokenStamp(index - 1)

\* the tracker went from 5 to 3, with a delay of zero
C10_Witness ==
    /\ pc = "loop"
    /\ index = 3
    /\ Spoken(1) /\ Spoken(2)
    /\ StampOf(1) = 5 /\ StampOf(2) = 3
    /\ delay = 0
    /\ last_timestamp = 3

-----------------------------------------------------------------------------
(* C4 *)

\* C4: when the target column exists, no row makes the build raise.
C4_NoRowAborts == lang_column \in df.columns => exc = NoExc

-----------------------------------------------------------------------------
(* C5 *)

\* an integer as written: digits, with or without a sign
IsInteger(cs) ==
    /\ Unsigned(cs) # << >>
    /\ \A k \in 1..Len(Unsigned(cs)) : IsDigit(Unsigned(cs)[k])

IntegerValue(cs) ==
    IF Head(cs) = "-" THEN 0 - DigitsVal(Unsigned(cs)) ELSE DigitsVal(Unsigned(cs))

Colons(cs) == { k \in 1..Len(cs) : cs[k] = ":" }

\* the cell is a str of the form integer:integer
IsMinutesSeconds(cell) ==
    /\ ~ cell.nan
    /\ Cardinality(Colons(cell.s)) = 1
    /\ LET k == CHOOSE c \in Colons(cell.s) : TRUE
       IN  /\ IsInteger(SubSeq(cell.s, 1, k - 1))
           /\ IsInteger(SubSeq(cell.s, k + 1, Len(cell.s)))

MinutesSecondsValue(cell) ==
    LET k == CHOOSE c \in Colons(cell.s) : TRUE
    IN  IntegerValue(SubSeq(cell.s, 1, k - 1)) * 60
           + IntegerValue(SubSeq(cell.s, k + 1, Len(cell.s)))

\* C5: convert_timestamp_to_seconds returns minutes*60 + seconds for a
\* timestamp of the form integer:integer and 0 for every other value; it
\* never lets an error out.
C5_ParsesOrZero ==
    ret # Pending =>
        /\ ret.exc = "none"
        /\ ret.val = IF IsMinutesSeconds(arg) THEN MinutesSecondsValue(arg) ELSE 0

-----------------------------------------------------------------------------
(* C6 *)

IsWhitespace(c) == c \in { " ", "\n" }

\* the row's text is empty after annotation and whitespace stripping
EmptyWhenStripped(i) ==
    /\ CleanOf(i).exc = "none"
    /\ \A k \in 1..Len(CleanOf(i).val) : IsWhitespace(CleanOf(i).val[k])

\* the timestamp of the last row among 1..i that is not empty when stripped
LastKeptStamp(i) ==
    LET kept == { j \in 1..i : ~ EmptyWhenStripped(j) }
    IN  IF kept = {} THEN 0 ELSE StampOf(Max(kept))

\* C6: a row whose text is empty after whitespace and annotation stripping
\* has no segment in the document and leaves the tracker as it was.
C6_EmptyRowsSkipped ==
    Building =>
        \A i \in Processed :
            EmptyWhenStripped(i) =>
                /\ TokensOfRow(i) = << >>
                /\ i = index - 1 => last_timestamp = LastKeptStamp(i - 1)

-----------------------------------------------------------------------------
(* C7 *)

\* the text with every substring from a '[' to the next ']' removed
RECURSIVE WithoutSpans(_)
WithoutSpans(cs) ==
    IF cs = << >> THEN << >>
    ELSE LET closes == { j \in 2..Len(cs) : cs[j] = "]" }
         IN  IF Head(cs) = "[" /\ closes # {}
             THEN WithoutSpans(SubSeq(cs, Min(closes) + 1, Len(cs)))
             ELSE << Head(cs) >> \o WithoutSpans(Tail(cs))

\* a '[' with a ']' somewhere after it
HasSpan(cs) == \E i, j \in 1..Len(cs) : i < j /\ cs[i] = "[" /\ cs[j] = "]"

\* C7: the cleaned text holds no '['...']' span, and is the text with each
\* span from a '[' to the next ']' removed, the rest kept as it was.
C7_SpansRemoved ==
    (ret # Pending /\ ~ arg.nan) =>
        /\ ret.exc = "none"
        /\ ~ HasSpan(ret.val)
        /\ ret.val = WithoutSpans(arg.s)

-----------------------------------------------------------------------------
(* C9 *)

\* The tokens between <speak ...> and </speak> are a well-formed content:
\* break and voice elements, each voice closed before the next element
\* opens, and no '<' or '&' in the character data (with the characters of
\* this model neither can start a tag or a reference).
RECURSIVE WellFormedContent(_, _)
WellFormedContent(tokens, inVoice) ==
    IF tokens = << >> THEN ~ inVoice
    ELSE LET tk == Head(tokens)
         IN  /\ CASE tk.t = "char" -> tk.c \notin { "<", "&" }
                  [] tk.t = "break" -> ~ inVoice
                  [] tk.t = "voice_open" -> ~ inVoice
                  [] tk.t = "voice_close" -> inVoice
                  [] OTHER -> FALSE
             /\ WellFormedContent(Tail(tokens),
                                  IF tk.t = "voice_open" THEN TRUE
                                  ELSE IF tk.t = "voice_close" THEN FALSE
                                  ELSE inVoice)

WellFormed(doc) ==
    /\ Len(doc) >= 2
    /\ doc[1] = SpeakOpen(xml_lang)
    /\ doc[Len(doc)] = SpeakClose
    /\ WellFormedContent(SubSeq(doc, 2, Len(doc) - 1), FALSE)

\* C9: the finished, uploaded document is well-formed: one speak envelope
\* with the supplied language tag around silence and voice elements, each
\* opened and closed correctly, whatever the rows' texts contain.
C9_WellFormedDocument ==
    pc = "returned" =>
        /\ storage[Len(storage)] = [folder |-> "ssml/", body |-> ssml_content]
        /\ WellFormed(ssml_content)

=============================================================================
